---- MODULE Spec2Model ----
(***************************************************************************)
(* Model of the paper-processing pipeline orchestrator                     *)
(* (tools/paper_processing_service.py), of the post-processor              *)
(* (tools/stage5_post_processor.py) and of the files the stage             *)
(* collaborators leave in the document's output directory.                 *)
(*                                                                         *)
(* A file name is a tuple of string tokens: <<doc, "_metadata.json">> is   *)
(* the file "<doc>_metadata.json".  Names built from the document name,    *)
(* from the stem of complete.md or from the name of the output root are    *)
(* equal exactly when the strings they stand for are equal.                *)
(* Progress values are in basis points (10000 = 1.0), stage-local progress *)
(* in percent.                                                             *)
(***************************************************************************)
EXTENDS Integers, Sequences, FiniteSets, TLC

VARIABLES
    doc,                \* Path(pdf_path).stem
    root,               \* basename of config.output_dir
    progress_callback,  \* TRUE iff a progress callback is registered
    error_callback,     \* TRUE iff an error callback is registered
    callback_raises,    \* TRUE iff the registered callbacks raise an
                        \* Exception whenever they are called
    files,              \* names present in output_dir
    savedResult,        \* content of pipeline_result.json
    run,                \* number of the current process_paper invocation
    prev,               \* what the previous invocation returned, and the
                        \* directory as this invocation found it
    pc,                 \* position inside process_paper
    stages,             \* result.stages: stage -> status of its StageResult
    outPath,            \* result.stages: stage -> output_path
    errMsg,             \* result.stages: stage -> error_message is set
    local,              \* status of stageN_result, the StageResult being built
    overall_status,     \* result.overall_status
    pipeline_error,     \* result.pipeline_error
    final_report_path,  \* result.final_report_path
    metadata_path,      \* result.metadata_path
    structure_path,     \* result.structure_path
    end_time,           \* TRUE iff result.end_time / total_processing_time set
    retry_count,        \* loop counter of _run_stage1
    invoked,            \* stage -> collaborator invocations in this run
    progressLog,        \* ProgressInfo events handed to the progress callback
    errorLog,           \* stages handed to the error callback
    pending,            \* a BaseException travelling up through the finally blocks
    stage1_errors,      \* per failed stage 1 attempt of this run: "timeout" when
                        \* the message names a timeout, else "error"
    post_errors,        \* the items of result["errors"] of this run's
                        \* post-processor call
    keep_intermediate_files,    \* config.keep_intermediate_files
    test_log,           \* what test_stage_check has printed: stage and verdict
    \* one call of LLMClient.get_completion or get_openai_response_conversation
    llm_fn,             \* which of the two functions is called
    llm_max_retries,    \* its max_retries argument
    retry_base_delay,   \* retry_base_delay of the configured service profile
    retries,            \* its local retries
    attempts,           \* outcome of every request made so far
    delays,             \* argument of every asyncio.sleep made so far
    llm_pc,             \* "idle", "loop", "returned", "raised"
    \* one call of generate_report
    max_concurrency,    \* its max_concurrency argument
    json_result,        \* kind of every section after the title section
    section_tasks,      \* the wrapped_task coroutines, in creation order
    section_metadata,   \* title and task index of every section
    semaphore,          \* value of the asyncio.Semaphore
    completed,          \* the finished tasks, in order of completion
    yielded,            \* how many of them asyncio.as_completed yielded
    sorted_results,     \* dict: task index -> result
    markdown_results,   \* the section entries of the assembled report
    report_pc,          \* position inside generate_report
    \* repeated calls of Stage5PostProcessor.process_paper_folder
    post_results,       \* folder content, cleaned and renamed files per call
    other_pc            \* position of a second process_paper run on the
                        \* same output directory; "idle" when there is none

vars == <<doc, root, progress_callback, error_callback, callback_raises,
          files, savedResult,
          run, prev, pc, stages, outPath, errMsg, local, overall_status,
          pipeline_error, final_report_path, metadata_path, structure_path,
          end_time, retry_count, invoked, progressLog, errorLog, pending, stage1_errors,
          post_errors,
          keep_intermediate_files, test_log,
          llm_fn, llm_max_retries, retry_base_delay, retries, attempts,
          delays, llm_pc,
          max_concurrency, json_result, section_tasks, section_metadata,
          semaphore, completed, yielded,
                sorted_results, markdown_results, report_pc,
          post_results, other_pc>>

config == <<doc, root, progress_callback, error_callback, callback_raises,
            keep_intermediate_files>>

\* the variables of one process_paper invocation
runVars == <<savedResult, run, prev, pc, stages, outPath, errMsg, local,
             overall_status, pipeline_error, final_report_path,
             metadata_path, structure_path, end_time, retry_count, invoked,
             progressLog, errorLog, pending, stage1_errors, post_errors>>

llmVars == <<llm_fn, llm_max_retries, retry_base_delay, retries, attempts,
             delays, llm_pc>>

reportVars == <<max_concurrency, json_result, section_tasks,
                section_metadata, semaphore, completed, yielded,
                sorted_results,
                markdown_results, report_pc>>

\* the variables process_paper does not touch
others == <<test_log, llmVars, reportVars, post_results, other_pc>>

-----------------------------------------------------------------------------
\* Bounds of the model

MaxRuns == 2

DocNames == {"paper", "complete"}

RootNames == {"output", "aer_quick_test"}

-----------------------------------------------------------------------------
\* ProcessingStage and ProcessingStatus

METADATA_EXTRACTION == 1
FULL_OCR == 2
STRUCTURE_PARSING == 3
REPORT_GENERATION == 4
POST_PROCESSING == 5

ProcessingStage == 1..5

ContentStages == 1..4

\* the enum values, as the code points of their characters
StageValue(s) ==
    CASE s = 1 -> <<109, 101, 116, 97, 100, 97, 116, 97, 95, 101, 120, 116, 114, 97, 99, 116, 105, 111, 110>>
      [] s = 2 -> <<102, 117, 108, 108, 95, 111, 99, 114>>
      [] s = 3 -> <<115, 116, 114, 117, 99, 116, 117, 114, 101, 95, 112, 97, 114, 115, 105, 110, 103>>
      [] s = 4 -> <<114, 101, 112, 111, 114, 116, 95, 103, 101, 110, 101, 114, 97, 116, 105, 111, 110>>
      [] s = 5 -> <<112, 111, 115, 116, 95, 112, 114, 111, 99, 101, 115, 115, 105, 110, 103>>

NOT_STARTED == "not_started"
IN_PROGRESS == "in_progress"
COMPLETED == "completed"
FAILED == "failed"
SKIPPED == "skipped"

ProcessingStatus == {NOT_STARTED, IN_PROGRESS, COMPLETED, FAILED, SKIPPED}

\* Python's None: a missing StageResult or message, and a missing path
None == "None"
NoPath == <<>>

\* StageResult.success
StageSuccess(status) == status = COMPLETED

-----------------------------------------------------------------------------
\* Python's str < str: lexicographic order on code points

RECURSIVE StrLess(_, _)
StrLess(a, b) ==
    IF b = <<>> THEN FALSE
    ELSE IF a = <<>> THEN TRUE
    ELSE IF a[1] # b[1] THEN a[1] < b[1]
    ELSE StrLess(Tail(a), Tail(b))

-----------------------------------------------------------------------------
\* File names of the output directory

MetadataFile(d) == <<d, "_metadata.json">>
FirstPagesMd(d) == <<d, "_first_three_pages.md">>
FirstPagesPdf(d) == <<d, "_first_three_pages.pdf">>
CompleteMd == <<"complete", ".md">>
StructureFile == <<"paper_structure", ".json">>
AttributeTreeFile(n) == <<n, "_attribute_tree.json">>
ClassificationFile(n) == <<n, "_classification.json">>
FinalReportMd == <<"final_report", ".md">>
ReportMd == <<"report", ".md">>
DocReportMd(d) == <<d, "_report.md">>
ProcessedReport(r) == <<"report_", r, ".md">>
PromptsJson == <<"prompts", ".json">>
PipelineResultFile == <<"pipeline_result", ".json">>
JsonDir == <<"json">>
PagesDir == <<"pages">>
SectionsDir == <<"sections">>
ImagesDir == <<"images">>

\* Path(p).stem of a two-token name
Stem(f) == f[1]

-----------------------------------------------------------------------------
\* PaperProcessingService.__init__: stage weights, in dict order

stage_weights == <<1500, 3000, 2500, 2500, 500>>

RECURSIVE SumWeights(_)
SumWeights(k) == IF k = 0 THEN 0 ELSE stage_weights[k] + SumWeights(k - 1)

\* the loop of _notify_progress over stage_weights.items(), first k entries
RECURSIVE OverallLoop(_, _, _)
OverallLoop(k, stage, stage_progress) ==
    IF k = 0 THEN 0
    ELSE OverallLoop(k - 1, stage, stage_progress)
         + (IF StrLess(StageValue(k), StageValue(stage)) THEN stage_weights[k]
            ELSE IF k = stage THEN (stage_weights[k] * stage_progress) \div 100
            ELSE 0)

Min(a, b) == IF a < b THEN a ELSE b

\* ProgressInfo.overall_progress computed by _notify_progress
overall_progress(stage, stage_progress) ==
    Min(OverallLoop(5, stage, stage_progress), 10000)

\* _notify_progress: the event log after the call
_notify_progress(log, stage, stage_progress) ==
    IF ~progress_callback THEN log
    ELSE Append(log, [current_stage |-> stage,
                      stage_progress |-> stage_progress,
                      overall_progress |-> overall_progress(stage, stage_progress)])

\* _notify_error: the error-callback log after the call
_notify_error(log, stage) ==
    IF error_callback THEN Append(log, stage) ELSE log

-----------------------------------------------------------------------------
\* Checkpoint detector

possible_report_files(d) == <<FinalReportMd, ReportMd, DocReportMd(d)>>

\* _check_stage_completed accepting either of the two stage 1 files
_check_stage_completed_either(stage, fs, d) ==
    CASE stage = METADATA_EXTRACTION ->
            MetadataFile(d) \in fs \/ FirstPagesMd(d) \in fs
      [] stage = FULL_OCR -> CompleteMd \in fs
      [] stage = STRUCTURE_PARSING ->
            StructureFile \in fs /\ AttributeTreeFile(d) \in fs
      [] stage = REPORT_GENERATION ->
            \E i \in 1..3 : possible_report_files(d)[i] \in fs
      [] OTHER -> FALSE

_check_stage_completed(stage, fs, d) ==
    CASE stage = METADATA_EXTRACTION ->
            MetadataFile(d) \in fs /\ FirstPagesMd(d) \in fs
      [] stage = FULL_OCR -> CompleteMd \in fs
      [] stage = STRUCTURE_PARSING ->
            StructureFile \in fs /\ AttributeTreeFile(d) \in fs
      [] stage = REPORT_GENERATION ->
            \E i \in 1..3 : possible_report_files(d)[i] \in fs
      [] OTHER -> FALSE

\* output_path of the StageResult synthesised for a checkpointed stage
CheckpointPath(stage, fs, d) ==
    CASE stage = METADATA_EXTRACTION -> MetadataFile(d)
      [] stage = FULL_OCR -> CompleteMd
      [] stage = STRUCTURE_PARSING -> AttributeTreeFile(d)
      [] stage = REPORT_GENERATION ->
            IF \E i \in 1..3 : possible_report_files(d)[i] \in fs
            THEN possible_report_files(d)[
                    CHOOSE i \in 1..3 :
                        /\ possible_report_files(d)[i] \in fs
                        /\ \A j \in 1..(i - 1) : possible_report_files(d)[j] \notin fs]
            ELSE possible_report_files(d)[1]

-----------------------------------------------------------------------------
\* Stage5PostProcessor

items_to_delete(d) ==
    {FirstPagesMd(d), FirstPagesPdf(d), JsonDir, PagesDir, SectionsDir,
     PromptsJson, PipelineResultFile}

\* _clean_intermediate_files; the deletion of an item of bad raises and is
\* recorded in result["errors"]
_clean_intermediate_files(fs, d, bad) ==
    fs \ (items_to_delete(d) \ bad)

\* rename_mappings whose fallback for complete.md feeds the mapping above it
rename_mappings_chained(d) ==
    << <<MetadataFile(d), <<"metadata_", d, ".json">> >>,
       << <<d, "_full.md">>, <<"full_", d, ".md">> >>,
       <<CompleteMd, <<d, "_full.md">> >>,
       <<ClassificationFile(d), <<"classification_", d, ".json">> >>,
       <<AttributeTreeFile(d), <<"attribute_tree_", d, ".json">> >>,
       <<StructureFile, <<"structure_", d, ".json">> >>,
       <<ProcessedReport("aer_quick_test"), <<"final_report_", d, ".md">> >>,
       <<FinalReportMd, <<"final_report_", d, ".md">> >> >>

rename_mappings(d) ==
    << <<MetadataFile(d), <<"metadata_", d, ".json">> >>,
       << <<d, "_full.md">>, <<"full_", d, ".md">> >>,
       <<CompleteMd, <<"full_", d, ".md">> >>,
       <<ClassificationFile(d), <<"classification_", d, ".json">> >>,
       <<AttributeTreeFile(d), <<"attribute_tree_", d, ".json">> >>,
       <<StructureFile, <<"structure_", d, ".json">> >>,
       <<ProcessedReport("aer_quick_test"), <<"final_report_", d, ".md">> >>,
       <<FinalReportMd, <<"final_report_", d, ".md">> >> >>

\* the loop of _rename_output_files from mapping i on; the rename of an
\* item of bad raises and is recorded in result["errors"]
RECURSIVE RenameFrom(_, _, _, _)
RenameFrom(i, fs, d, bad) ==
    IF i > Len(rename_mappings(d)) THEN fs
    ELSE LET old == rename_mappings(d)[i][1]
             new == rename_mappings(d)[i][2]
         IN  IF old \in fs /\ new \notin fs /\ old \notin bad
             THEN RenameFrom(i + 1, (fs \ {old}) \cup {new}, d, bad)
             ELSE RenameFrom(i + 1, fs, d, bad)

_rename_output_files(fs, d, bad) == RenameFrom(1, fs, d, bad)

\* result["cleaned_files"]
cleaned_files(fs, d, bad) == fs \cap (items_to_delete(d) \ bad)

\* result["renamed_files"], from mapping i on
RECURSIVE RenamedFrom(_, _, _, _)
RenamedFrom(i, fs, d, bad) ==
    IF i > Len(rename_mappings(d)) THEN <<>>
    ELSE LET old == rename_mappings(d)[i][1]
             new == rename_mappings(d)[i][2]
         IN  IF old \in fs /\ new \notin fs /\ old \notin bad
             THEN <<rename_mappings(d)[i]>> \o
                  RenamedFrom(i + 1, (fs \ {old}) \cup {new}, d, bad)
             ELSE RenamedFrom(i + 1, fs, d, bad)

renamed_files(fs, d, bad) ==
    RenamedFrom(1, _clean_intermediate_files(fs, d, bad), d, bad)

\* the renames that were attempted and raised, from mapping i on
RECURSIVE RenameErrorsFrom(_, _, _, _)
RenameErrorsFrom(i, fs, d, bad) ==
    IF i > Len(rename_mappings(d)) THEN {}
    ELSE LET old == rename_mappings(d)[i][1]
             new == rename_mappings(d)[i][2]
         IN  IF old \in fs /\ new \notin fs
             THEN IF old \in bad
                  THEN {old} \cup RenameErrorsFrom(i + 1, fs, d, bad)
                  ELSE RenameErrorsFrom(i + 1, (fs \ {old}) \cup {new}, d, bad)
             ELSE RenameErrorsFrom(i + 1, fs, d, bad)

\* the items named in result["errors"]: the deletions and the renames
\* that were attempted and raised
errors(fs, d, bad) ==
    (fs \cap items_to_delete(d) \cap bad) \cup
    RenameErrorsFrom(1, _clean_intermediate_files(fs, d, bad), d, bad)

\* result["success"] turned False by a recorded error
PostSuccess_strict(errs) == errs = {}

\* result["success"] after the two steps: the item errors leave it True
PostSuccess(errs) == TRUE

\* process_paper_folder when no exception escapes the two steps
process_paper_folder(fs, d, bad) ==
    _rename_output_files(_clean_intermediate_files(fs, d, bad), d, bad)

-----------------------------------------------------------------------------
\* PipelineResult.save_to_file

save_to_file_skipped(fs) == fs

save_to_file(fs) == fs \cup {PipelineResultFile}

\* PipelineResult.to_dict, the part this model follows
to_dict == [overall_status |-> overall_status, stages |-> stages]

NoResult == [overall_status |-> None, stages |-> [s \in ProcessingStage |-> None]]

-----------------------------------------------------------------------------
\* The state of one invocation before its PipelineResult is created

NoStatus == [s \in ProcessingStage |-> None]

ResetRun ==
    /\ stages' = NoStatus
    /\ outPath' = [s \in ProcessingStage |-> NoPath]
    /\ errMsg' = [s \in ProcessingStage |-> FALSE]
    /\ local' = NoStatus
    /\ pipeline_error' = None
    /\ final_report_path' = NoPath
    /\ metadata_path' = NoPath
    /\ structure_path' = NoPath
    /\ end_time' = FALSE
    /\ retry_count' = 0
    /\ invoked' = [s \in ProcessingStage |-> 0]
    /\ progressLog' = <<>>
    /\ errorLog' = <<>>
    /\ pending' = FALSE
    /\ stage1_errors' = <<>>
    /\ post_errors' = {}

NoPrev == [outcome |-> "none", overall_status |-> None, stages |-> NoStatus,
           final_report_path |-> NoPath, dir_at_start |-> {}]

\* the checkpoint evidence of stages 1..j, as a prior partial run or a
\* user may have left it in the output directory
Evidence(j, d) ==
    (IF j >= 1 THEN {MetadataFile(d), FirstPagesMd(d)} ELSE {})
    \cup (IF j >= 2 THEN {CompleteMd} ELSE {})
    \cup (IF j >= 3 THEN {StructureFile, AttributeTreeFile(d)} ELSE {})
    \cup (IF j >= 4 THEN {FinalReportMd} ELSE {})

InitDirs(d) == {Evidence(j, d) : j \in 0..4}

\* a service object on which process_paper has not been called yet
NotStarted ==
    /\ savedResult = NoResult
    /\ run = 0
    /\ prev = NoPrev
    /\ pc = "idle"
    /\ stages = NoStatus
    /\ outPath = [s \in ProcessingStage |-> NoPath]
    /\ errMsg = [s \in ProcessingStage |-> FALSE]
    /\ local = NoStatus
    /\ overall_status = NOT_STARTED
    /\ pipeline_error = None
    /\ final_report_path = NoPath
    /\ metadata_path = NoPath
    /\ structure_path = NoPath
    /\ end_time = FALSE
    /\ retry_count = 0
    /\ invoked = [s \in ProcessingStage |-> 0]
    /\ progressLog = <<>>
    /\ errorLog = <<>>
    /\ pending = FALSE
    /\ stage1_errors = <<>>
    /\ post_errors = {}

\* no call of get_completion or get_openai_response_conversation is under way
LLMIdle ==
    /\ llm_fn = "none"
    /\ llm_max_retries = 0
    /\ retry_base_delay = 1
    /\ retries = 0
    /\ attempts = <<>>
    /\ delays = <<>>
    /\ llm_pc = "idle"

\* no call of generate_report is under way
ReportIdle ==
    /\ max_concurrency = 0
    /\ json_result = <<>>
    /\ section_tasks = <<>>
    /\ section_metadata = <<>>
    /\ semaphore = 0
    /\ completed = <<>>
    /\ yielded = 0
    /\ sorted_results = <<>>
    /\ markdown_results = <<>>
    /\ report_pc = "idle"

Init ==
    /\ doc \in DocNames
    /\ root \in RootNames
    /\ progress_callback \in BOOLEAN
    /\ error_callback \in BOOLEAN
    /\ callback_raises \in BOOLEAN
    /\ callback_raises => (progress_callback \/ error_callback)
    /\ keep_intermediate_files = FALSE
    /\ files \in InitDirs(doc)
    /\ NotStarted
    /\ test_log = <<>>
    /\ LLMIdle
    /\ ReportIdle
    /\ post_results = <<>>
    /\ other_pc = "idle"

-----------------------------------------------------------------------------
\* process_paper

\* CheckPc that goes from stage 4 straight to the return
CheckPc_skip5(k) ==
    CASE k = 1 -> "check1" [] k = 2 -> "check2" [] k = 3 -> "check3"
      [] k = 4 -> "check4" [] k = 5 -> "finally"

CheckPc(k) ==
    CASE k = 1 -> "check1" [] k = 2 -> "check2" [] k = 3 -> "check3"
      [] k = 4 -> "check4" [] k = 5 -> "run5"

RunPc(k) ==
    CASE k = 1 -> "run1" [] k = 2 -> "run2" [] k = 3 -> "run3"
      [] k = 4 -> "run4" [] k = 5 -> "run5"

\* StageError with pipeline_error left unset
StageError_unset(k) == None

\* pipeline_error of a run that fails in stage k
StageError(k) ==
    CASE k = 1 -> "stage1" [] k = 2 -> "stage2" [] k = 3 -> "stage3"
      [] k = 4 -> "stage4" [] k = 5 -> "stage5"

\* AfterStage without the early return of a failed stage
AfterStage_noHalt(ok, next) == next

\* where process_paper goes after a content stage's StageResult is added:
\* on to the next stage, or to the early return
AfterStage(ok, next) == IF ok THEN next ELSE "finally"

\* a call of process_paper begins: the output directory is created and the
\* PipelineResult initialised, or mkdir raises before the try block
StartRun ==
    /\ pc \in {"idle", "returned", "raised"}
    /\ run < MaxRuns
    /\ run' = run + 1
    /\ prev' = IF pc = "idle" THEN [NoPrev EXCEPT !.dir_at_start = files]
               ELSE [outcome |-> pc, overall_status |-> overall_status,
                     stages |-> stages, final_report_path |-> final_report_path,
                     dir_at_start |-> files]
    /\ ResetRun
    /\ \E mkdir_ok \in BOOLEAN :
          IF mkdir_ok
          THEN /\ overall_status' = IN_PROGRESS
               /\ pc' = "check1"
          ELSE /\ overall_status' = NOT_STARTED
               /\ pc' = "raised"
    /\ UNCHANGED <<config, others, files, savedResult>>

\* StageReturns with overall_status left as it is when the stage failed
StageReturns_statusKept(k, status, path, msg) ==
    /\ local' = [local EXCEPT ![k] = status]
    /\ stages' = [stages EXCEPT ![k] = status]
    /\ outPath' = [outPath EXCEPT ![k] = path]
    /\ errMsg' = [errMsg EXCEPT ![k] = msg]
    /\ pc' = AfterStage(StageSuccess(status), CheckPc(k + 1))
    /\ IF StageSuccess(status)
       THEN UNCHANGED <<overall_status, pipeline_error>>
       ELSE /\ overall_status' = overall_status
            /\ pipeline_error' = StageError(k)

\* the StageResult of a content stage runner comes back to process_paper:
\* add_stage_result, then the success test
StageReturns(k, status, path, msg) ==
    /\ local' = [local EXCEPT ![k] = status]
    /\ stages' = [stages EXCEPT ![k] = status]
    /\ outPath' = [outPath EXCEPT ![k] = path]
    /\ errMsg' = [errMsg EXCEPT ![k] = msg]
    /\ pc' = AfterStage(StageSuccess(status), CheckPc(k + 1))
    /\ IF StageSuccess(status)
       THEN UNCHANGED <<overall_status, pipeline_error>>
       ELSE /\ overall_status' = FAILED
            /\ pipeline_error' = StageError(k)

\* a callback's exception that leaves _notify_progress or _notify_error
NotifyEscapes_uncaught(registered, raises) == registered /\ raises

\* "except Exception" around the callback call: the exception is logged
\* and the notification returns
NotifyEscapes(registered, raises) == FALSE

\* what the "except Exception" clause of process_paper does to the result
ExceptionHandled ==
    /\ overall_status' = FAILED
    /\ pipeline_error' = "exception"
    /\ stages' = [stages EXCEPT ![METADATA_EXTRACTION] = FAILED]
    /\ outPath' = [outPath EXCEPT ![METADATA_EXTRACTION] = NoPath]
    /\ errMsg' = [errMsg EXCEPT ![METADATA_EXTRACTION] = TRUE]
    /\ pc' = "finally"

\* a stage runner fails in its except block
StageFails(k) ==
    /\ errorLog' = _notify_error(errorLog, k)
    /\ IF NotifyEscapes(error_callback, callback_raises)
       THEN /\ local' = [local EXCEPT ![k] = FAILED]
            /\ ExceptionHandled
       ELSE StageReturns(k, FAILED, NoPath, TRUE)

\* a BaseException (SystemExit of a collaborator module's import) passes
\* the except clauses of the runner and of process_paper
StageExits(k) ==
    /\ pending' = TRUE
    /\ pc' = "finally"
    /\ UNCHANGED <<stages, outPath, errMsg, local, overall_status,
                   pipeline_error, errorLog>>

\* a checkpointed stage announced at its start
CheckpointProgress_zero(k) == 0

\* the stage_progress announced for a checkpointed stage: 1.0
CheckpointProgress(k) == 100

\* the checkpoint test of content stage k and, when it fails, the entry of
\* the stage runner
CheckStage(k) ==
    /\ pc = CheckPc(k)
    /\ k \in ContentStages
    /\ IF _check_stage_completed(k, files, doc)
       THEN /\ progressLog' = _notify_progress(progressLog, k,
                                                CheckpointProgress(k))
            /\ IF NotifyEscapes(progress_callback, callback_raises)
               THEN ExceptionHandled /\ UNCHANGED local
               ELSE StageReturns(k, COMPLETED, CheckpointPath(k, files, doc),
                                 FALSE)
       ELSE /\ progressLog' = _notify_progress(progressLog, k, 0)
            /\ IF NotifyEscapes(progress_callback, callback_raises)
               THEN ExceptionHandled /\ UNCHANGED local
               ELSE /\ local' = [local EXCEPT ![k] = IN_PROGRESS]
                    /\ pc' = RunPc(k)
                    /\ UNCHANGED <<stages, outPath, errMsg, overall_status,
                                   pipeline_error>>
    /\ UNCHANGED <<config, others, stage1_errors, post_errors,
                   files, savedResult, run, prev, final_report_path,
                   metadata_path, structure_path, end_time, retry_count,
                   invoked, errorLog, pending>>

-----------------------------------------------------------------------------
\* _run_stage1

max_retries == 3

\* PipelineConfig.max_retry_attempts, which no code reads
max_retry_attempts == 3

\* what one call of process_pdf (crop, OCR of the first pages, metadata
\* extraction) leaves in the output directory, by how far it gets
Stage1Writes(outcome, d) ==
    CASE outcome = "crop_error" -> {}
      [] outcome = "ocr_timeout" -> {FirstPagesPdf(d)}
      [] outcome \in {"llm_timeout", "llm_error"} ->
            {FirstPagesPdf(d), ImagesDir, PagesDir, CompleteMd, FirstPagesMd(d)}
      [] outcome = "ok" ->
            {FirstPagesPdf(d), ImagesDir, PagesDir, CompleteMd, FirstPagesMd(d),
             MetadataFile(d)}

Stage1Outcomes == {"crop_error", "ocr_timeout", "llm_timeout", "llm_error", "ok"}

IsTimeout(outcome) == outcome \in {"ocr_timeout", "llm_timeout"}

\* the import of crop_pdf_first_three_page.process_pdf, which calls
\* sys.exit(1) when one of its own imports fails
Stage1Import ==
    /\ pc = "run1"
    /\ \E import_ok \in BOOLEAN :
          IF import_ok
          THEN /\ progressLog' = _notify_progress(progressLog, 1, 30)
               /\ pc' = "loop1"
               /\ UNCHANGED <<stages, outPath, errMsg, local, overall_status,
                              pipeline_error, errorLog, pending>>
          ELSE /\ StageExits(1)
               /\ UNCHANGED progressLog
    /\ UNCHANGED <<config, others, stage1_errors, post_errors,
                   files, savedResult, run, prev, final_report_path,
                   metadata_path, structure_path, end_time, retry_count, invoked>>

\* one iteration of the retry loop
Stage1Attempt ==
    /\ pc = "loop1"
    /\ retry_count < max_retries
    /\ \E outcome \in Stage1Outcomes :
          /\ invoked' = [invoked EXCEPT ![1] = @ + 1]
          /\ files' = files \cup Stage1Writes(outcome, doc)
          /\ stage1_errors' = IF outcome = "ok" THEN stage1_errors
                              ELSE Append(stage1_errors,
                                          IF IsTimeout(outcome) THEN "timeout"
                                          ELSE "error")
          /\ IF outcome = "ok"
             THEN /\ progressLog' = _notify_progress(progressLog, 1, 100)
                  /\ StageReturns(1, COMPLETED, MetadataFile(doc), FALSE)
                  /\ UNCHANGED <<retry_count, errorLog>>
             ELSE /\ retry_count' = retry_count + 1
                  /\ IF IsTimeout(outcome) /\ retry_count + 1 < max_retries
                     THEN /\ progressLog' = _notify_progress(progressLog, 1, 30)
                          /\ UNCHANGED <<pc, stages, outPath, errMsg, local,
                                         overall_status, pipeline_error, errorLog>>
                     ELSE /\ StageFails(1)
                          /\ UNCHANGED progressLog
    /\ UNCHANGED <<config, others, post_errors, savedResult, run, prev, final_report_path,
                   metadata_path, structure_path, end_time, pending>>

-----------------------------------------------------------------------------
\* _run_stage2

Stage2Process ==
    /\ pc = "run2"
    /\ invoked' = [invoked EXCEPT ![2] = @ + 1]
    /\ \E ok \in BOOLEAN :
          IF ok
          THEN /\ files' = files \cup {PagesDir, ImagesDir, CompleteMd}
               /\ progressLog' = _notify_progress(
                                    _notify_progress(progressLog, 2, 20), 2, 100)
               /\ StageReturns(2, COMPLETED, CompleteMd, FALSE)
               /\ UNCHANGED errorLog
          ELSE /\ progressLog' = _notify_progress(progressLog, 2, 20)
               /\ StageFails(2)
               /\ UNCHANGED files
    /\ UNCHANGED <<config, others, stage1_errors, post_errors,
                   savedResult, run, prev, final_report_path,
                   metadata_path, structure_path, end_time, retry_count, pending>>

-----------------------------------------------------------------------------
\* _run_stage3

\* paper_name = Path(complete_md_path).stem.replace("_full", "")
Stage3PaperName == Stem(outPath[2])

\* process_paper_structure
Stage3Structure ==
    /\ pc = "run3"
    /\ invoked' = [invoked EXCEPT ![3] = @ + 1]
    /\ \E outcome \in {"ok", "false", "error"} :
          IF outcome = "ok"
          THEN /\ files' = files \cup {JsonDir, SectionsDir, StructureFile}
               /\ progressLog' = _notify_progress(
                                    _notify_progress(progressLog, 3, 20), 3, 50)
               /\ pc' = "run3b"
               /\ UNCHANGED <<stages, outPath, errMsg, local, overall_status,
                              pipeline_error, errorLog>>
          ELSE /\ files' = files \cup {JsonDir, SectionsDir}
               /\ progressLog' = _notify_progress(progressLog, 3, 20)
               /\ StageFails(3)
    /\ UNCHANGED <<config, others, stage1_errors, post_errors,
                   savedResult, run, prev, final_report_path,
                   metadata_path, structure_path, end_time, retry_count, pending>>

\* the import of attribute_tree_extractor (sys.exit(1) when its own
\* imports fail) and PaperTypeClassifier.classify_paper
Stage3Classify ==
    /\ pc = "run3b"
    /\ \E outcome \in {"ok", "error", "sys_exit"} :
          CASE outcome = "ok" ->
                /\ files' = files \cup {ClassificationFile(Stage3PaperName)}
                /\ progressLog' = _notify_progress(progressLog, 3, 70)
                /\ pc' = "run3c"
                /\ UNCHANGED <<stages, outPath, errMsg, local, overall_status,
                               pipeline_error, errorLog, pending>>
            [] outcome = "error" ->
                /\ StageFails(3)
                /\ UNCHANGED <<files, progressLog, pending>>
            [] outcome = "sys_exit" ->
                /\ StageExits(3)
                /\ UNCHANGED <<files, progressLog>>
    /\ UNCHANGED <<config, others, stage1_errors, post_errors,
                   savedResult, run, prev, final_report_path,
                   metadata_path, structure_path, end_time, retry_count, invoked>>

\* AttributeTreeExtractor.extract_attribute_tree
Stage3Extract ==
    /\ pc = "run3c"
    /\ \E ok \in BOOLEAN :
          IF ok
          THEN /\ files' = files \cup {AttributeTreeFile(Stage3PaperName)}
               /\ progressLog' = _notify_progress(progressLog, 3, 100)
               /\ StageReturns(3, COMPLETED, AttributeTreeFile(Stage3PaperName), FALSE)
               /\ UNCHANGED errorLog
          ELSE /\ StageFails(3)
               /\ UNCHANGED <<files, progressLog>>
    /\ UNCHANGED <<config, others, stage1_errors, post_errors,
                   savedResult, run, prev, final_report_path,
                   metadata_path, structure_path, end_time, retry_count,
                   invoked, pending>>

-----------------------------------------------------------------------------
\* _run_stage4

\* glob("*_paper_structure.json"), then glob("paper_structure.json")
\* structure_files that stops after glob("*_paper_structure.json")
structure_files_prefixed(fs) == {}

structure_files(fs) == IF StructureFile \in fs THEN {StructureFile} ELSE {}

\* process_paper_report: generate_report writes report.md and prompts.json,
\* process_report writes report_<pdf_name>.md and unlinks report.md, where
\* pdf_name = basename(dirname(dirname(json_path))) is the output root
Stage4Writes(outcome, fs, r) ==
    CASE outcome = "generate_error" -> fs
      [] outcome = "process_error" -> fs \cup {ReportMd, PromptsJson}
      [] outcome = "ok" ->
            ((fs \cup {ReportMd, PromptsJson}) \cup {ProcessedReport(r)}) \ {ReportMd}

Stage4Report ==
    /\ pc = "run4"
    /\ IF structure_files(files) = {}
       THEN /\ progressLog' = _notify_progress(progressLog, 4, 20)
            /\ StageFails(4)
            /\ UNCHANGED <<files, invoked>>
       ELSE /\ invoked' = [invoked EXCEPT ![4] = @ + 1]
            /\ \E outcome \in {"ok", "generate_error", "process_error"} :
                  /\ files' = Stage4Writes(outcome, files, root)
                  /\ IF outcome = "ok"
                     THEN /\ progressLog' =
                                _notify_progress(
                                    _notify_progress(
                                        _notify_progress(progressLog, 4, 20),
                                        4, 50),
                                    4, 100)
                          /\ StageReturns(4, COMPLETED, ProcessedReport(root), FALSE)
                          /\ UNCHANGED errorLog
                     ELSE /\ progressLog' =
                                _notify_progress(
                                    _notify_progress(progressLog, 4, 20), 4, 50)
                          /\ StageFails(4)
    /\ UNCHANGED <<config, others, stage1_errors, post_errors,
                   savedResult, run, prev, final_report_path,
                   metadata_path, structure_path, end_time, retry_count, pending>>

-----------------------------------------------------------------------------
\* _run_stage5 and the final assignment of process_paper

\* the items whose deletion or rename may raise inside the post-processor
Stage5BadItems(d) == SUBSET {FirstPagesMd(d), MetadataFile(d)}

\* FinalStatus with a PostProcessing failure treated as advisory
FinalStatus_advisory(stage5_success) == COMPLETED

\* overall_status after the PostProcessing StageResult is added
FinalStatus(stage5_success) == IF stage5_success THEN COMPLETED ELSE FAILED

Stage5Returns(status, msg) ==
    /\ local' = [local EXCEPT ![5] = status]
    /\ stages' = [stages EXCEPT ![5] = status]
    /\ outPath' = outPath
    /\ errMsg' = [errMsg EXCEPT ![5] = msg]
    /\ overall_status' = FinalStatus(StageSuccess(status))
    /\ IF FinalStatus(StageSuccess(status)) = COMPLETED
       THEN /\ final_report_path' = outPath[4]
            /\ metadata_path' = outPath[1]
            /\ structure_path' = outPath[3]
            /\ pipeline_error' = pipeline_error
       ELSE /\ pipeline_error' = StageError(5)
            /\ UNCHANGED <<final_report_path, metadata_path, structure_path>>
    /\ pc' = "finally"

Stage5Process ==
    /\ pc = "run5"
    /\ invoked' = [invoked EXCEPT ![5] = @ + 1]
    /\ \E outcome \in {"ok", "folder_error", "import_error"} :
          CASE outcome = "ok" ->
                \E bad \in Stage5BadItems(doc) :
                    /\ files' = process_paper_folder(files, doc, bad)
                    /\ post_errors' = errors(files, doc, bad)
                    /\ progressLog' =
                            _notify_progress(
                                _notify_progress(
                                    _notify_progress(progressLog, 5, 0), 5, 30),
                                5, 100)
                    /\ IF PostSuccess(errors(files, doc, bad))
                       THEN Stage5Returns(COMPLETED, FALSE)
                       ELSE Stage5Returns(FAILED, TRUE)
                    /\ UNCHANGED errorLog
            [] outcome = "folder_error" ->
                \* an exception escapes _clean_intermediate_files:
                \* post_result["success"] is False
                /\ progressLog' = _notify_progress(
                                    _notify_progress(progressLog, 5, 0), 5, 30)
                /\ Stage5Returns(FAILED, TRUE)
                /\ UNCHANGED <<files, errorLog, post_errors>>
            [] outcome = "import_error" ->
                /\ progressLog' = _notify_progress(
                                    _notify_progress(progressLog, 5, 0), 5, 30)
                /\ Stage5Returns(FAILED, TRUE)
                /\ errorLog' = _notify_error(errorLog, 5)
                /\ UNCHANGED <<files, post_errors>>
    /\ UNCHANGED <<config, others, stage1_errors, savedResult, run, prev,
                   end_time, retry_count, pending>>

-----------------------------------------------------------------------------
\* the except and finally clauses of process_paper

\* an exception raised in the try block outside the stage runners' own
\* try blocks reaches "except Exception"; the error StageResult is filed
\* under METADATA_EXTRACTION
TopLevelException ==
    /\ pc \in {"check1", "check2", "check3", "check4", "run5"}
    /\ ExceptionHandled
    /\ UNCHANGED <<config, others, stage1_errors, post_errors,
                   files, savedResult, run, prev, local,
                   final_report_path, metadata_path, structure_path, end_time,
                   retry_count, invoked, progressLog, errorLog, pending>>

\* finally: end_time, total_processing_time, save_to_file; then the return,
\* or the exception of save_to_file or the pending BaseException goes on
Finally ==
    /\ pc = "finally"
    /\ end_time' = TRUE
    /\ \E save_ok \in BOOLEAN :
          IF save_ok
          THEN /\ files' = save_to_file(files)
               /\ savedResult' = IF PipelineResultFile \in save_to_file(files)
                                 THEN to_dict ELSE savedResult
               /\ pc' = IF pending THEN "raised" ELSE "returned"
          ELSE /\ pc' = "raised"
               /\ UNCHANGED <<files, savedResult>>
    /\ UNCHANGED <<config, others, stage1_errors, post_errors,
                   run, prev, stages, outPath, errMsg, local,
                   overall_status, pipeline_error, final_report_path,
                   metadata_path, structure_path, retry_count, invoked,
                   progressLog, errorLog, pending>>

-----------------------------------------------------------------------------

Next ==
    \/ StartRun
    \/ \E k \in ContentStages : CheckStage(k)
    \/ Stage1Import
    \/ Stage1Attempt
    \/ Stage2Process
    \/ Stage3Structure
    \/ Stage3Classify
    \/ Stage3Extract
    \/ Stage4Report
    \/ Stage5Process
    \/ TopLevelException
    \/ Finally

Spec == Init /\ [][Next]_vars

-----------------------------------------------------------------------------
\* test_resume_simple.test_stage_check: the checkpoint detector is called
\* for the four content stages, in order, on an output directory that
\* earlier runs have left in an arbitrary state

\* the names the detector looks for and the names the stages write
KnownFiles(d, r) ==
    {MetadataFile(d), FirstPagesMd(d), CompleteMd, StructureFile,
     AttributeTreeFile(d), AttributeTreeFile(Stem(CompleteMd)),
     FinalReportMd, ReportMd, DocReportMd(d), ProcessedReport(r)}

stages_to_test ==
    <<METADATA_EXTRACTION, FULL_OCR, STRUCTURE_PARSING, REPORT_GENERATION>>

TestInit ==
    /\ doc \in DocNames
    /\ root \in RootNames
    /\ progress_callback = FALSE
    /\ error_callback = FALSE
    /\ callback_raises = FALSE
    /\ keep_intermediate_files = FALSE
    /\ files \in SUBSET KnownFiles(doc, root)
    /\ NotStarted
    /\ test_log = <<>>
    /\ LLMIdle
    /\ ReportIdle
    /\ post_results = <<>>
    /\ other_pc = "idle"

\* one iteration of the loop over stages_to_test
test_stage_check ==
    /\ Len(test_log) < Len(stages_to_test)
    /\ LET stage == stages_to_test[Len(test_log) + 1]
       IN  test_log' = Append(test_log,
                [stage |-> stage,
                 completed |-> _check_stage_completed(stage, files, doc)])
    /\ UNCHANGED <<config, files, runVars, llmVars, reportVars, post_results,
                   other_pc>>

TestNext == test_stage_check

TestSpec == TestInit /\ [][TestNext]_vars

\* every collaborator call, callback and file operation ends, and asyncio
\* resumes the coroutine: process_paper always takes its next step
FairSpec == Spec /\ WF_vars(Next)

-----------------------------------------------------------------------------
\* The retry loops of LLMClient.get_completion (utils/llm_client.py) and of
\* get_openai_response_conversation (report_generator)

MaxLLMRetries == 2

BaseDelays == {1, 2}

LLMFunctions == {"get_completion", "get_openai_response_conversation"}

\* how one request to the LLM service ends: with a reply, or with the
\* exception class the except clauses tell apart ("JSONError": a
\* JSONDecodeError or a message naming one; "other": any other Exception)
LLMOutcomes ==
    {"ok", "APIConnectionError", "APIError", "TimeoutError", "JSONError",
     "other"}

\* the except clause that catches the outcome ends in a retry
Retried(fn, outcome) ==
    IF fn = "get_completion"
    THEN outcome \in {"APIConnectionError", "APIError", "TimeoutError",
                      "JSONError", "other"}
    ELSE outcome \in {"APIConnectionError", "APIError", "TimeoutError",
                      "JSONError"}

RECURSIVE Pow2(_)
Pow2(n) == IF n = 0 THEN 1 ELSE 2 * Pow2(n - 1)

\* the argument of asyncio.sleep: 2 ** retries
Backoff(r) == Pow2(r)

\* Exhausted that gives up one retry early
Exhausted_early(r, max) == r >= max

\* if retries > max_retries: raise
Exhausted(r, max) == r > max

RetryInit ==
    /\ doc \in DocNames
    /\ root \in RootNames
    /\ progress_callback = FALSE
    /\ error_callback = FALSE
    /\ callback_raises = FALSE
    /\ keep_intermediate_files = FALSE
    /\ files = {}
    /\ NotStarted
    /\ test_log = <<>>
    /\ ReportIdle
    /\ post_results = <<>>
    /\ other_pc = "idle"
    /\ llm_fn \in LLMFunctions
    /\ llm_max_retries \in 0..MaxLLMRetries
    /\ retry_base_delay \in BaseDelays
    /\ retries = 0
    /\ attempts = <<>>
    /\ delays = <<>>
    /\ llm_pc = "loop"

\* one iteration of "while retries <= max_retries"
LLMAttempt ==
    /\ llm_pc = "loop"
    /\ retries <= llm_max_retries
    /\ \E outcome \in LLMOutcomes :
          /\ attempts' = Append(attempts, outcome)
          /\ IF outcome = "ok"
             THEN /\ llm_pc' = "returned"
                  /\ UNCHANGED <<retries, delays>>
             ELSE IF Retried(llm_fn, outcome)
             THEN /\ retries' = retries + 1
                  /\ IF Exhausted(retries + 1, llm_max_retries)
                     THEN /\ llm_pc' = "raised"
                          /\ UNCHANGED delays
                     ELSE /\ delays' = Append(delays, Backoff(retries + 1))
                          /\ UNCHANGED llm_pc
             ELSE /\ llm_pc' = "raised"
                  /\ UNCHANGED <<retries, delays>>
    /\ UNCHANGED <<config, files, runVars, test_log, reportVars, post_results, other_pc,
                   llm_fn, llm_max_retries, retry_base_delay>>

RetryNext == LLMAttempt

RetrySpec == RetryInit /\ [][RetryNext]_vars

-----------------------------------------------------------------------------
\* generate_report (report_generator/LLM_for_paper_reading_updated.py): the
\* overall summary, then one sub-task per section under a semaphore

MaxConcurrency == 2

MaxSections == 3

\* a section of json_result[1:]: one with level 0, one whose text_content
\* is empty, one that gets a sub-task
SectionKinds == {"level0", "empty", "text"}

RECURSIVE SeqsUpTo(_, _)
SeqsUpTo(S, n) ==
    IF n = 0 THEN {<<>>}
    ELSE LET shorter == SeqsUpTo(S, n - 1)
         IN  shorter \cup {Append(q, x) : q \in shorter, x \in S}

\* max_retries = 5 in the call of wrapped_task
wrapped_max_retries == 5

\* the coroutine wrapped_task(index, task_func, ...) before it runs;
\* task_func is the request for the section at position title
wrapped_task(index, title) ==
    [index |-> index, task_func |-> title, state |-> "pending",
     retry_count |-> 0, result |-> None]

\* the loop over json_result[1:]; a section's title is its position
RECURSIVE SectionLoop(_, _, _, _)
SectionLoop(json, k, tasks, metadata) ==
    IF k > Len(json) THEN [section_tasks |-> tasks, section_metadata |-> metadata]
    ELSE IF json[k] = "level0" THEN SectionLoop(json, k + 1, tasks, metadata)
    ELSE IF json[k] = "empty" THEN SectionLoop(json, k + 1, tasks, metadata)
    ELSE LET task == wrapped_task(Len(tasks), k)
             appended == Append(tasks, task)
         IN  SectionLoop(json, k + 1, appended,
                         Append(metadata,
                                [title |-> k, index |-> Len(appended) - 1]))

\* Semaphore.acquire that never blocks
SemaphoreFree_always(value) == TRUE

\* Semaphore.acquire goes on only when the value is positive
SemaphoreFree(value) == value > 0

\* leaving "async with semaphore" without a release
SemaphoreExit_held(value) == value

\* Semaphore.release on leaving "async with semaphore"
SemaphoreExit(value) == value + 1

\* the reply of the LLM to the request for a section
Reply(title) == <<"reply", title>>

\* the text returned after the last retry
FailurePlaceholder(tries) == <<"failed", tries>>

\* a task that ends with an exception instead of a result
Raised == <<"raised">>

\* wrapped_task that raises after its last retry
WrappedTaskGivesUp_raises(tries) == Raised

\* return index, "（内容生成失败：…，已尝试 N 次）"
WrappedTaskGivesUp(tries) == FailurePlaceholder(tries)

\* the text the assembly uses for an index without a result
MissingContent == <<"missing">>

\* results stored by order of arrival
ResultKey_arrival(index, results) == Cardinality(DOMAIN results)

\* sorted_results[index] = result
ResultKey(index, results) == index

ReportInit ==
    /\ doc = "paper"
    /\ root = "output"
    /\ progress_callback = FALSE
    /\ error_callback = FALSE
    /\ callback_raises = FALSE
    /\ keep_intermediate_files = FALSE
    /\ files = {}
    /\ NotStarted
    /\ test_log = <<>>
    /\ LLMIdle
    /\ post_results = <<>>
    /\ other_pc = "idle"
    /\ max_concurrency \in 1..MaxConcurrency
    /\ json_result \in SeqsUpTo(SectionKinds, MaxSections)
    /\ section_tasks = <<>>
    /\ section_metadata = <<>>
    /\ semaphore = max_concurrency
    /\ completed = <<>>
    /\ yielded = 0
    /\ sorted_results = <<>>
    /\ markdown_results = <<>>
    /\ report_pc = "overall"

\* await overall_task, then the synchronous code up to as_completed
OverallSummary ==
    /\ report_pc = "overall"
    /\ \E ok \in BOOLEAN :
          IF ok
          THEN LET built == SectionLoop(json_result, 1, <<>>, <<>>)
               IN  /\ section_tasks' = built.section_tasks
                   /\ section_metadata' = built.section_metadata
                   /\ markdown_results' = <<<<"title", "summary">>>>
                   /\ report_pc' = "fanout"
          ELSE /\ report_pc' = "raised"
               /\ UNCHANGED <<section_tasks, section_metadata,
                              markdown_results>>
    /\ UNCHANGED <<config, files, runVars, test_log, llmVars, post_results, other_pc,
                   max_concurrency, json_result, semaphore, completed,
                   yielded, sorted_results>>

TaskVarsUnchanged ==
    UNCHANGED <<config, files, runVars, test_log, llmVars, post_results, other_pc,
                max_concurrency, json_result, section_metadata, yielded,
                sorted_results, markdown_results, report_pc>>

\* "async with semaphore" entered: the first await of task_func starts
\* the request
EnterSemaphore(i) ==
    /\ report_pc = "fanout"
    /\ section_tasks[i].state = "pending"
    /\ SemaphoreFree(semaphore)
    /\ semaphore' = semaphore - 1
    /\ section_tasks' = [section_tasks EXCEPT ![i].state = "request"]
    /\ UNCHANGED completed
    /\ TaskVarsUnchanged

\* return index, result: the semaphore is left and as_completed gets the
\* finished task
TaskReturns(i, result) ==
    /\ section_tasks' = [section_tasks EXCEPT ![i].state = "done",
                                              ![i].result = result]
    /\ semaphore' = SemaphoreExit(semaphore)
    /\ completed' = Append(completed, i)

\* the awaited request ends, with the reply or with an exception
RequestEnds(i) ==
    /\ report_pc = "fanout"
    /\ section_tasks[i].state = "request"
    /\ \E ok \in BOOLEAN :
          IF ok
          THEN TaskReturns(i, Reply(section_tasks[i].task_func))
          ELSE /\ section_tasks' = [section_tasks EXCEPT
                                       ![i].state = "sleep",
                                       ![i].retry_count = 1]
               /\ UNCHANGED <<semaphore, completed>>
    /\ TaskVarsUnchanged

\* after the sleep the same coroutine object is awaited again, which
\* raises RuntimeError without a request
RetryAfterSleep(i) ==
    /\ report_pc = "fanout"
    /\ section_tasks[i].state = "sleep"
    /\ LET count == section_tasks[i].retry_count + 1
       IN  IF count <= wrapped_max_retries
           THEN /\ section_tasks' = [section_tasks EXCEPT
                                        ![i].retry_count = count]
                /\ UNCHANGED <<semaphore, completed>>
           ELSE /\ section_tasks' = [section_tasks EXCEPT
                                        ![i].state = "done",
                                        ![i].retry_count = count,
                                        ![i].result =
                                            WrappedTaskGivesUp(wrapped_max_retries)]
                /\ semaphore' = SemaphoreExit(semaphore)
                /\ completed' = Append(completed, i)
    /\ TaskVarsUnchanged

\* one iteration of "for future in asyncio.as_completed(section_tasks)";
\* a task that raised is reported and leaves no result
Collect ==
    /\ report_pc = "fanout"
    /\ yielded < Len(completed)
    /\ LET task == section_tasks[completed[yielded + 1]]
           key == ResultKey(task.index, sorted_results)
       IN  IF task.result = Raised
           THEN UNCHANGED sorted_results
           ELSE sorted_results' =
                    [k \in DOMAIN sorted_results \cup {key} |->
                         IF k = key THEN task.result ELSE sorted_results[k]]
    /\ yielded' = yielded + 1
    /\ UNCHANGED <<config, files, runVars, test_log, llmVars, post_results, other_pc,
                   max_concurrency, json_result, section_tasks,
                   section_metadata, semaphore, completed, markdown_results,
                   report_pc>>

\* the loop over range(len(section_tasks)) and the two writes
Assemble ==
    /\ report_pc = "fanout"
    /\ yielded = Len(section_tasks)
    /\ markdown_results' =
           markdown_results \o
           [n \in 1..Len(section_tasks) |->
               LET index == n - 1
                   result == IF index \in DOMAIN sorted_results
                             THEN sorted_results[index]
                             ELSE MissingContent
                   meta == CHOOSE m \in {section_metadata[j] :
                                             j \in 1..Len(section_metadata)} :
                               m.index = index
               IN  <<meta.title, result>>]
    /\ files' = files \cup {ReportMd, PromptsJson}
    /\ report_pc' = "written"
    /\ UNCHANGED <<config, runVars, test_log, llmVars, post_results, other_pc,
                   max_concurrency, json_result, section_tasks,
                   section_metadata, semaphore, completed, yielded,
                sorted_results>>

ReportNext ==
    \/ OverallSummary
    \/ \E i \in 1..Len(section_tasks) :
          \/ EnterSemaphore(i)
          \/ RequestEnds(i)
          \/ RetryAfterSleep(i)
    \/ Collect
    \/ Assemble

ReportSpec == ReportInit /\ [][ReportNext]_vars

\* the event loop runs every task that is ready and every request ends
ReportFairSpec == ReportSpec /\ WF_vars(ReportNext)

-----------------------------------------------------------------------------
\* Stage5PostProcessor.process_paper_folder called again and again on one
\* paper folder

MaxFolderFiles == 4

MaxPostRuns == 2

\* every name the post-processor deletes, renames or creates
FolderFiles(d) ==
    items_to_delete(d) \cup
    {rename_mappings(d)[i][1] : i \in 1..Len(rename_mappings(d))} \cup
    {rename_mappings(d)[i][2] : i \in 1..Len(rename_mappings(d))}

RECURSIVE SubsetsUpTo(_, _)
SubsetsUpTo(S, n) ==
    IF n = 0 THEN {{}}
    ELSE LET smaller == SubsetsUpTo(S, n - 1)
         IN  smaller \cup {A \cup {x} : A \in smaller, x \in S}

FolderInit ==
    /\ doc \in DocNames
    /\ root = "output"
    /\ progress_callback = FALSE
    /\ error_callback = FALSE
    /\ callback_raises = FALSE
    /\ keep_intermediate_files \in BOOLEAN
    /\ files \in SubsetsUpTo(FolderFiles(doc), MaxFolderFiles)
    /\ NotStarted
    /\ test_log = <<>>
    /\ LLMIdle
    /\ ReportIdle
    /\ post_results = <<>>
    /\ other_pc = "idle"

\* processor = Stage5PostProcessor();
\* processor.process_paper_folder(Path(output_dir))
PostProcess ==
    /\ Len(post_results) < MaxPostRuns
    /\ files' = process_paper_folder(files, doc, {})
    /\ post_results' =
           Append(post_results,
                  [before |-> files,
                   cleaned_files |-> cleaned_files(files, doc, {}),
                   renamed_files |-> renamed_files(files, doc, {}),
                   after |-> files'])
    /\ UNCHANGED <<config, runVars, test_log, llmVars, reportVars, other_pc>>

FolderNext == PostProcess

FolderSpec == FolderInit /\ [][FolderNext]_vars

-----------------------------------------------------------------------------
\* Two process_paper runs for one document on one output directory. The
\* run followed above is joined by a second run whose collaborators all
\* succeed and of which only the position and the files are followed.

\* what the runner of content stage k leaves when its collaborators succeed
StageWrites(k, fs, d, r) ==
    CASE k = 1 -> fs \cup Stage1Writes("ok", d)
      [] k = 2 -> fs \cup {PagesDir, ImagesDir, CompleteMd}
      [] k = 3 -> fs \cup {JsonDir, SectionsDir, StructureFile,
                           ClassificationFile(Stem(CompleteMd)),
                           AttributeTreeFile(Stem(CompleteMd))}
      [] k = 4 -> Stage4Writes("ok", fs, r)

\* to_dict of the second run's result
OtherResult(ok) ==
    IF ok
    THEN [overall_status |-> COMPLETED,
          stages |-> [s \in ProcessingStage |-> COMPLETED]]
    ELSE [overall_status |-> FAILED,
          stages |-> [s \in ProcessingStage |->
                        IF s < 4 THEN COMPLETED
                        ELSE IF s = 4 THEN FAILED ELSE None]]

\* both runs are called for paper.pdf when its output directory is empty
RaceInit ==
    /\ doc = "paper"
    /\ root = "output"
    /\ progress_callback = FALSE
    /\ error_callback = FALSE
    /\ callback_raises = FALSE
    /\ keep_intermediate_files = FALSE
    /\ files = {}
    /\ NotStarted
    /\ test_log = <<>>
    /\ LLMIdle
    /\ ReportIdle
    /\ post_results = <<>>
    /\ other_pc = "start"

\* the second run touches the files and pipeline_result.json only
OtherUnchanged ==
    UNCHANGED <<config, run, prev, pc, stages, outPath, errMsg, local,
                overall_status, pipeline_error, final_report_path,
                metadata_path, structure_path, end_time, retry_count, invoked,
                progressLog, errorLog, pending, stage1_errors, post_errors,
                test_log, llmVars, reportVars, post_results>>

\* the second run creates the output directory and its PipelineResult
OtherStartRun ==
    /\ other_pc = "start"
    /\ other_pc' = "check1"
    /\ UNCHANGED <<files, savedResult>>
    /\ OtherUnchanged

\* the second run's checkpoint test of stage k and, when it fails, the
\* stage; stage 4 fails when it finds no paper_structure.json
OtherStage(k) ==
    /\ other_pc = CheckPc(k)
    /\ k \in ContentStages
    /\ IF _check_stage_completed(k, files, doc)
       THEN /\ other_pc' = CheckPc(k + 1)
            /\ UNCHANGED files
       ELSE IF k = 4 /\ structure_files(files) = {}
       THEN /\ other_pc' = "failed"
            /\ UNCHANGED files
       ELSE /\ other_pc' = CheckPc(k + 1)
            /\ files' = StageWrites(k, files, doc, root)
    /\ UNCHANGED savedResult
    /\ OtherUnchanged

\* the second run's _run_stage5
OtherPostProcess ==
    /\ other_pc = "run5"
    /\ files' = process_paper_folder(files, doc, {})
    /\ other_pc' = "finally"
    /\ UNCHANGED savedResult
    /\ OtherUnchanged

\* the second run's finally clause and return
OtherFinally ==
    /\ other_pc \in {"finally", "failed"}
    /\ files' = save_to_file(files)
    /\ savedResult' = OtherResult(other_pc = "finally")
    /\ other_pc' = "returned"
    /\ OtherUnchanged

RaceNext ==
    \/ Next
    \/ OtherStartRun
    \/ \E k \in ContentStages : OtherStage(k)
    \/ OtherPostProcess
    \/ OtherFinally

RaceSpec == RaceInit /\ [][RaceNext]_vars

-----------------------------------------------------------------------------
\* Properties

Returned == pc = "returned"

\* the invocation follows one that returned a PipelineResult
SecondRun == prev.outcome = "returned"

Succeeded(status) == status \in {COMPLETED, SKIPPED}

\* C1: when the previous run ended Failed at content stage k in 2..4, the
\* next run on the unchanged directory invokes no collaborator of a stage
\* before k.
C1_ResumeSkipsCompletedStages ==
    (SecondRun /\ prev.overall_status = FAILED) =>
        \A k \in 2..4 :
            prev.stages[k] = FAILED =>
                \A j \in 1..(k - 1) : invoked[j] = 0

\* C2: a second run on the unchanged directory invokes no content-stage
\* collaborator and is Completed iff the first was.  The formula states it
\* for a first run that ended Completed and a second run that no exception
\* outside the stages disturbs; the claim implies it.
C2_IdempotentResumption ==
    (/\ Returned
     /\ SecondRun
     /\ prev.overall_status = COMPLETED
     /\ pipeline_error # "exception") =>
        /\ \A k \in ContentStages : invoked[k] = 0
        /\ overall_status = COMPLETED

\* C3: when content stage k is Failed in the returned PipelineResult, no
\* later stage has a StageResult, no later collaborator was invoked and
\* PostProcessing was not attempted.
C3_FailFast ==
    Returned =>
        \A k \in ContentStages :
            stages[k] = FAILED =>
                \A j \in (k + 1)..5 : stages[j] = None /\ invoked[j] = 0

\* C4: a collaborator is started only when every earlier stage has resolved
\* to Completed or Skipped in this run and no other stage is in progress;
\* at most one stage is in progress at any time.
C4_StrictStageOrder ==
    /\ [](Cardinality({k \in ProcessingStage : local[k] = IN_PROGRESS}) <= 1)
    /\ [](\A k \in ProcessingStage :
            local[k] = IN_PROGRESS =>
                \A j \in 1..(k - 1) : Succeeded(stages[j]))
    /\ [][\A k \in ProcessingStage :
            invoked'[k] > invoked[k] =>
                /\ \A j \in 1..(k - 1) : Succeeded(stages[j])
                /\ \A j \in ProcessingStage \ {k} : local[j] # IN_PROGRESS]_vars

C4_Witness ==
    /\ local[STRUCTURE_PARSING] = IN_PROGRESS
    /\ invoked[STRUCTURE_PARSING] = 1
    /\ invoked[METADATA_EXTRACTION] = 1
    /\ stages[FULL_OCR] = COMPLETED

\* C5: process_paper never propagates an exception; it always returns a
\* PipelineResult.
C5_NeverRaises == pc # "raised"

\* C6: in every returned PipelineResult, overall_status is Completed iff
\* every one of the five stages has a StageResult that is Completed or
\* Skipped.
C6_CompletedIffAllStagesSucceeded ==
    Returned =>
        (overall_status = COMPLETED
            <=> \A k \in ProcessingStage : Succeeded(stages[k]))

C6_Witness ==
    /\ Returned
    /\ overall_status = COMPLETED
    /\ invoked[POST_PROCESSING] = 1

\* C7: the overall_progress values handed to the progress callback in one
\* run never decrease.
C7_MonotonicProgress ==
    \A i \in 1..(Len(progressLog) - 1) :
        progressLog[i].overall_progress <= progressLog[i + 1].overall_progress

\* C8: the stage weights sum to 1.0, PostProcessing at stage progress 1.0
\* reports overall progress 1.0, and so the last event of a successful run
\* carries 1.0.
C8_WeightConservation ==
    /\ SumWeights(5) = 10000
    /\ (Returned /\ overall_status = COMPLETED /\ progress_callback) =>
            /\ progressLog[Len(progressLog)].current_stage = POST_PROCESSING
            /\ progressLog[Len(progressLog)].stage_progress = 100
            /\ progressLog[Len(progressLog)].overall_progress = 10000

PostProcessingFailed ==
    /\ Returned
    /\ \A k \in ContentStages : stages[k] = COMPLETED
    /\ stages[POST_PROCESSING] = FAILED

\* C9 as stated: a PostProcessing failure after four successful content
\* stages leaves overall_status Completed and the three artifact paths set.
C9_PostProcessingAdvisory ==
    PostProcessingFailed =>
        /\ overall_status = COMPLETED
        /\ final_report_path # NoPath
        /\ metadata_path # NoPath
        /\ structure_path # NoPath

\* C9 amended: a PostProcessing failure after four successful content
\* stages is recorded in PostProcessing's StageResult and makes the
\* pipeline Failed: pipeline_error names the fifth stage and the three
\* artifact paths stay unset.
C9_PostProcessingFailureFailsPipeline ==
    PostProcessingFailed =>
        /\ errMsg[POST_PROCESSING]
        /\ overall_status = FAILED
        /\ pipeline_error = StageError(POST_PROCESSING)
        /\ final_report_path = NoPath
        /\ metadata_path = NoPath
        /\ structure_path = NoPath

C9_Witness == PostProcessingFailed /\ invoked[POST_PROCESSING] = 1

\* C10: whenever process_paper returns, end_time and total_processing_time
\* are set and pipeline_result.json exists and records the overall_status
\* and the stage statuses of the returned PipelineResult.
C10_ResultSavedAtReturn ==
    Returned =>
        /\ end_time
        /\ PipelineResultFile \in files
        /\ savedResult = to_dict

\* a run whose PostProcessing deleted the pipeline_result.json of the
\* previous run
C10_Witness ==
    /\ Returned
    /\ SecondRun
    /\ stages[POST_PROCESSING] = COMPLETED
    /\ savedResult.stages[POST_PROCESSING] = COMPLETED

\* the invocation found an empty output directory
StartedEmpty == prev.dir_at_start = {}

StructureArtifacts(d) ==
    {StructureFile, JsonDir, SectionsDir, AttributeTreeFile(d),
     AttributeTreeFile(Stem(CompleteMd)), ClassificationFile(d),
     ClassificationFile(Stem(CompleteMd))}

ReportArtifacts(d, r) ==
    {FinalReportMd, ReportMd, DocReportMd(d), ProcessedReport(r), PromptsJson}

\* C11: a run on an empty output directory in which no collaborator call
\* fails (no retry, no error message on any stage) returns Completed with
\* the four content StageResults Completed, and final_report_path names a
\* file that is in the output directory when process_paper returns.
C11_HappyPath ==
    (/\ Returned
     /\ StartedEmpty
     /\ retry_count = 0
     /\ \A k \in ProcessingStage : ~errMsg[k]) =>
        /\ overall_status = COMPLETED
        /\ \A k \in ContentStages : stages[k] = COMPLETED
        /\ final_report_path # NoPath
        /\ final_report_path \in files

\* C12: when the single call of the metadata-extraction collaborator on an
\* empty output directory raises an error that is not retried, the
\* collaborator was invoked exactly once, process_paper returns Failed, the
\* failed stages are exactly MetadataExtraction, no later collaborator ran
\* and the directory holds no structure or report artifact.
C12_NonRetryableMetadataFailure ==
    (/\ Returned
     /\ StartedEmpty
     /\ retry_count = 1
     /\ pipeline_error = StageError(METADATA_EXTRACTION)) =>
        /\ invoked[METADATA_EXTRACTION] = 1
        /\ overall_status = FAILED
        /\ {k \in ProcessingStage : stages[k] = FAILED} = {METADATA_EXTRACTION}
        /\ \A k \in 2..5 : invoked[k] = 0 /\ stages[k] = None
        /\ files \cap StructureArtifacts(doc) = {}
        /\ files \cap ReportArtifacts(doc, root) = {}

\* the input PDF is missing: the crop step fails before anything is written
C12_Witness ==
    /\ Returned
    /\ StartedEmpty
    /\ retry_count = 1
    /\ pipeline_error = StageError(METADATA_EXTRACTION)
    /\ files = {PipelineResultFile}
    /\ errorLog = <<METADATA_EXTRACTION>>

\* C13: when the run finds the stage 1 and stage 2 artifacts but not the
\* stage 3 artifacts, then at the call of the stage 3 collaborator the
\* stage 1 and stage 2 collaborators have not been invoked, stages 1 and 2
\* are recorded Skipped, and the input of stage 3 is complete.md.
C13_PartialRunResume ==
    (/\ _check_stage_completed(METADATA_EXTRACTION, prev.dir_at_start, doc)
     /\ _check_stage_completed(FULL_OCR, prev.dir_at_start, doc)
     /\ ~_check_stage_completed(STRUCTURE_PARSING, prev.dir_at_start, doc)
     /\ pc = RunPc(STRUCTURE_PARSING)) =>
        /\ invoked[METADATA_EXTRACTION] = 0
        /\ invoked[FULL_OCR] = 0
        /\ stages[METADATA_EXTRACTION] = SKIPPED
        /\ stages[FULL_OCR] = SKIPPED
        /\ outPath[FULL_OCR] = CompleteMd

\* C14: whenever the runner of content stage k turns its StageResult from
\* in progress to Completed, the checkpoint detector reports stage k
\* complete on the directory as the stage leaves it.
C14_StageOutputsAreCheckpointEvidence ==
    [][\A k \in ContentStages :
            (local[k] = IN_PROGRESS /\ stages'[k] = COMPLETED) =>
                _check_stage_completed(k, files', doc)]_vars

\* C15: for every directory content, the verdict of the detector is:
\* stage 1 iff <doc>_metadata.json and <doc>_first_three_pages.md both
\* exist, stage 2 iff complete.md exists, stage 3 iff paper_structure.json
\* and <doc>_attribute_tree.json both exist, stage 4 iff one of
\* final_report.md, report.md, <doc>_report.md exists; and no call changes
\* the directory.
C15_CheckpointDetector ==
    /\ [](\A i \in 1..Len(test_log) :
            test_log[i].completed <=>
                CASE test_log[i].stage = METADATA_EXTRACTION ->
                        {<<doc, "_metadata.json">>,
                         <<doc, "_first_three_pages.md">>} \subseteq files
                  [] test_log[i].stage = FULL_OCR ->
                        <<"complete", ".md">> \in files
                  [] test_log[i].stage = STRUCTURE_PARSING ->
                        {<<"paper_structure", ".json">>,
                         <<doc, "_attribute_tree.json">>} \subseteq files
                  [] test_log[i].stage = REPORT_GENERATION ->
                        {<<"final_report", ".md">>, <<"report", ".md">>,
                         <<doc, "_report.md">>} \cap files # {})
    /\ [][files' = files]_vars

\* all four stages tested on a directory with the files stage 3 and
\* stage 4 write for a document that is not named "complete", with one of
\* the two stage 1 files, and with <doc>_report.md
C15_Witness ==
    /\ Len(test_log) = Len(stages_to_test)
    /\ files = {MetadataFile(doc), CompleteMd, StructureFile,
                AttributeTreeFile(Stem(CompleteMd)), ProcessedReport(root),
                DocReportMd(doc)}
    /\ doc # Stem(CompleteMd)
    /\ ~test_log[1].completed
    /\ test_log[2].completed
    /\ ~test_log[3].completed
    /\ test_log[4].completed

\* C16: every stage that is Failed in the returned PipelineResult has its
\* error_message set and, when an error callback is registered, was handed
\* to the callback exactly once during the run.
C16_ErrorsNeverSwallowed ==
    Returned =>
        \A k \in ProcessingStage :
            stages[k] = FAILED =>
                /\ errMsg[k]
                /\ error_callback =>
                        Cardinality({i \in 1..Len(errorLog) : errorLog[i] = k}) = 1

\* the stage whose checkpoint test or runner call process_paper has reached
ActiveStage ==
    CASE pc = "check1" -> 1 [] pc = "check2" -> 2 [] pc = "check3" -> 3
      [] pc = "check4" -> 4 [] pc = "run5" -> 5 [] OTHER -> 0

\* C17: when the top-level handler catches an exception while stage k is
\* active, the Failed StageResult is recorded against stage k and the
\* StageResults of the stages before k stay as they were.
C17_ExceptionRecordedAgainstActiveStage ==
    [][(pipeline_error # "exception" /\ pipeline_error' = "exception") =>
            /\ stages'[ActiveStage] = FAILED
            /\ errMsg'[ActiveStage]
            /\ \A j \in 1..(ActiveStage - 1) : stages'[j] = stages[j]]_vars

\* C18: in every returned PipelineResult, pipeline_error is set iff
\* overall_status is Failed.
C18_PipelineErrorIffFailed ==
    Returned => (pipeline_error # None <=> overall_status = FAILED)

C18_Witness ==
    /\ Returned
    /\ overall_status = FAILED
    /\ pipeline_error = "stage3"
    /\ SecondRun
    /\ prev.overall_status = COMPLETED

\* C19: when the detector reports content stage k complete, the StageResult
\* recorded for k is Skipped, its output_path names a file of the
\* directory, and process_paper goes on to the next stage.
C19_CheckpointedStageIsSkipped ==
    [][\A k \in ContentStages :
            (/\ pc = CheckPc(k)
             /\ _check_stage_completed(k, files, doc)
             /\ pipeline_error' # "exception") =>
                /\ stages'[k] = SKIPPED
                /\ outPath'[k] \in files
                /\ pc' = CheckPc(k + 1)]_vars

\* C20: every ProgressInfo carries overall_progress = the weights of the
\* stages before current_stage in pipeline order + the weight of
\* current_stage times stage_progress.
C20_ProgressAggregation ==
    \A i \in 1..Len(progressLog) :
        progressLog[i].overall_progress =
            SumWeights(progressLog[i].current_stage - 1)
            + (stage_weights[progressLog[i].current_stage]
               * progressLog[i].stage_progress) \div 100

\* the error classes the specification calls retryable
RetryableErrors == {"APIConnectionError", "APIError", "TimeoutError", "JSONError"}

AlwaysRetryable == \A i \in 1..Len(attempts) : attempts[i] \in RetryableErrors

\* C21: a call whose every request fails with a retryable error makes
\* exactly max_retries + 1 requests and then raises; no call makes more
\* requests, and a call returns only after a request that succeeded.
C21_RetryBound ==
    /\ Len(attempts) <= llm_max_retries + 1
    /\ (AlwaysRetryable /\ Len(attempts) = llm_max_retries + 1) =>
            llm_pc = "raised"
    /\ (AlwaysRetryable /\ llm_pc = "raised") =>
            Len(attempts) = llm_max_retries + 1
    /\ llm_pc = "returned" => attempts[Len(attempts)] = "ok"

C21_Witness ==
    /\ llm_pc = "raised"
    /\ llm_fn = "get_openai_response_conversation"
    /\ llm_max_retries = 2
    /\ attempts = <<"TimeoutError", "APIError", "JSONError">>

\* C22: a request that fails with an error outside the retryable classes
\* ends the call at once: the error is raised, no sleep is made and no
\* further request follows.
C22_FatalErrorsNotRetried ==
    [][(/\ llm_pc = "loop"
        /\ Len(attempts') = Len(attempts) + 1
        /\ attempts'[Len(attempts')] \notin RetryableErrors \cup {"ok"}) =>
            /\ llm_pc' = "raised"
            /\ delays' = delays]_vars

RECURSIVE SumSeq(_)
SumSeq(q) == IF q = <<>> THEN 0 ELSE q[1] + SumSeq(Tail(q))

RECURSIVE SumPow2(_)
SumPow2(n) == IF n = 0 THEN 0 ELSE Pow2(n) + SumPow2(n - 1)

\* C24: the sleep before the k-th retry lasts retry_base_delay * 2^k
\* seconds, and a call that fails on every request has slept
\* retry_base_delay * (2^1 + ... + 2^max_retries) seconds when it raises.
C24_ExponentialBackoff ==
    /\ \A k \in 1..Len(delays) : delays[k] = retry_base_delay * Pow2(k)
    /\ (llm_pc = "raised" /\ Len(attempts) = llm_max_retries + 1) =>
            SumSeq(delays) = retry_base_delay * SumPow2(llm_max_retries)

\* C23: when every call of the stage 1 collaborator ends in a timeout, the
\* collaborator is called max_retry_attempts + 1 times (one call and
\* max_retry_attempts retries) and stage 1 is then recorded Failed.
C23_StageRetryGovernedByConfig ==
    (/\ Returned
     /\ pipeline_error = StageError(METADATA_EXTRACTION)
     /\ stage1_errors # <<>>
     /\ \A i \in 1..Len(stage1_errors) : stage1_errors[i] = "timeout") =>
        /\ stages[METADATA_EXTRACTION] = FAILED
        /\ invoked[METADATA_EXTRACTION] = max_retry_attempts + 1

\* C30: in a run that starts from an empty output directory and in which no
\* collaborator call fails, the collaborator of each content stage is
\* invoked exactly once.
C30_NoStageSkippedOnFreshRun ==
    (/\ Returned
     /\ StartedEmpty
     /\ retry_count = 0
     /\ overall_status = COMPLETED
     /\ \A k \in ProcessingStage : ~errMsg[k]) =>
        \A k \in ContentStages : invoked[k] = 1

\* the sub-tasks whose LLM request has started and has not ended
InFlight == {i \in 1..Len(section_tasks) : section_tasks[i].state = "request"}

\* C25: at every moment of the fan-out over the sections at most
\* max_concurrency section requests are started and not yet finished.
C25_ConcurrencyCap == Cardinality(InFlight) <= max_concurrency

\* two requests in flight and a third sub-task waiting for the semaphore
C25_Witness ==
    /\ max_concurrency = 2
    /\ Cardinality(InFlight) = 2
    /\ \E i \in 1..Len(section_tasks) : section_tasks[i].state = "pending"

\* the positions of the sections that get a sub-task, in document order
RECURSIVE TextSections(_, _)
TextSections(json, k) ==
    IF k > Len(json) THEN <<>>
    ELSE IF json[k] = "text" THEN <<k>> \o TextSections(json, k + 1)
    ELSE TextSections(json, k + 1)

\* C26: the assembled report lists the sections that have content in
\* document order, each heading followed by the result of the sub-task
\* created for that section, whatever the order of completion.
C26_OrderRestoration ==
    report_pc = "written" =>
        LET titles == TextSections(json_result, 1)
        IN  /\ Len(markdown_results) = 1 + Len(titles)
            /\ \A n \in 1..Len(titles) :
                  /\ markdown_results[n + 1][1] = titles[n]
                  /\ \E i \in 1..Len(section_tasks) :
                        /\ section_tasks[i].task_func = titles[n]
                        /\ markdown_results[n + 1][2] = section_tasks[i].result

\* the later section finished first
C26_Witness ==
    /\ report_pc = "written"
    /\ json_result = <<"empty", "text", "text">>
    /\ completed = <<2, 1>>
    /\ markdown_results =
           <<<<"title", "summary">>, <<2, Reply(2)>>, <<3, Reply(3)>>>>

C27_ReportWritten ==
    /\ report_pc = "written" =>
          /\ ReportMd \in files
          /\ Len(markdown_results) = 1 + Len(section_tasks)
          /\ \A i \in 1..Len(section_tasks) :
                markdown_results[i + 1][2] =
                    IF section_tasks[i].retry_count = 0
                    THEN Reply(section_tasks[i].task_func)
                    ELSE FailurePlaceholder(wrapped_max_retries)
    /\ report_pc = "raised" => section_tasks = <<>>

\* C27: once the fan-out over the sections has started, generate_report
\* goes on to write the report whatever sub-task fails; the report holds
\* the placeholder text for every section whose request failed and the
\* reply for every other section, and generate_report raises only when
\* the overall summary failed, before any sub-task existed.
C27_PartialFailurePolicy ==
    /\ []C27_ReportWritten
    /\ (report_pc = "fanout") ~> (report_pc = "written")

\* the first of two sections failed on every attempt, the second did not
C27_Witness ==
    /\ report_pc = "written"
    /\ json_result = <<"text", "text">>
    /\ section_tasks[1].retry_count > wrapped_max_retries
    /\ markdown_results =
           <<<<"title", "summary">>,
             <<1, FailurePlaceholder(wrapped_max_retries)>>, <<2, Reply(2)>>>>

\* C28: every call of process_paper_folder after the first one on a folder
\* deletes nothing, renames nothing and leaves the folder as it found it.
C28_PostProcessingIdempotent ==
    \A k \in 2..Len(post_results) :
        /\ post_results[k].cleaned_files = {}
        /\ post_results[k].renamed_files = <<>>
        /\ post_results[k].after = post_results[k].before
        /\ post_results[k].after = post_results[1].after

\* the folder held an intermediate file and both sources of full_<name>.md
C28_Witness ==
    /\ Len(post_results) = 2
    /\ post_results[1].before =
           {PromptsJson, CompleteMd, <<doc, "_full.md">>, MetadataFile(doc)}
    /\ post_results[1].cleaned_files = {PromptsJson}
    /\ Len(post_results[1].renamed_files) = 2
    /\ files = {CompleteMd, <<"full_", doc, ".md">>,
                <<"metadata_", doc, ".json">>}

\* C29: with keep_intermediate_files = true no call of the post-processor
\* deletes a file or a directory of the output directory.
C29_KeepIntermediateFiles ==
    keep_intermediate_files =>
        \A k \in 1..Len(post_results) : post_results[k].cleaned_files = {}

\* C31: in every run that returns with the four content stages Completed
\* or Skipped the PostProcessing collaborator was invoked exactly once,
\* also when an earlier run already post-processed the directory.
C31_PostProcessingAlwaysRuns ==
    (Returned /\ \A k \in ContentStages : Succeeded(stages[k])) =>
        invoked[POST_PROCESSING] = 1

\* the run follows one in which PostProcessing ended Completed
C31_Witness ==
    /\ Returned
    /\ SecondRun
    /\ prev.stages[POST_PROCESSING] = COMPLETED
    /\ \A k \in ContentStages : Succeeded(stages[k])
    /\ invoked[POST_PROCESSING] = 1

\* the stage_progress of the events of stage k, in the order of the calls
RECURSIVE StageEventsFrom(_, _)
StageEventsFrom(i, k) ==
    IF i > Len(progressLog) THEN <<>>
    ELSE IF progressLog[i].current_stage = k
    THEN <<progressLog[i].stage_progress>> \o StageEventsFrom(i + 1, k)
    ELSE StageEventsFrom(i + 1, k)

StageEvents(k) == StageEventsFrom(1, k)

\* stage k was resolved by the checkpoint test, without its collaborator
CheckpointSkipped(k) ==
    k \in ContentStages /\ local[k] = COMPLETED /\ invoked[k] = 0

\* the runner of stage k was entered
Executed(k) == local[k] # None /\ ~CheckpointSkipped(k)

\* C32: with a progress callback registered, a stage resolved by the
\* checkpoint test has exactly one progress event, with stage_progress
\* 1.0; a stage whose runner was entered has a first event with
\* stage_progress 0 and, once it is Completed, a last event with 1.0.
C32_ProgressEventsOfStage ==
    progress_callback =>
        \A k \in ProcessingStage :
            /\ CheckpointSkipped(k) => StageEvents(k) = <<100>>
            /\ Executed(k) =>
                  /\ StageEvents(k) # <<>>
                  /\ StageEvents(k)[1] = 0
                  /\ local[k] = COMPLETED =>
                        StageEvents(k)[Len(StageEvents(k))] = 100

\* stages 1 and 2 were checkpointed, stage 3 was executed and succeeded
C32_Witness ==
    /\ progress_callback
    /\ Returned
    /\ CheckpointSkipped(1)
    /\ CheckpointSkipped(2)
    /\ invoked[3] = 1
    /\ local[3] = COMPLETED
    /\ StageEvents(3) = <<0, 20, 50, 70, 100>>

\* C33: when the deletion or the rename of single items fails inside the
\* post-processor, the failed items are in its error list, every other
\* item to delete is gone, every other rename that was due is done, and
\* the PostProcessing stage and the pipeline end Completed.
C33_PostProcessingBestEffort ==
    (pc = "finally" /\ post_errors # {}) =>
        /\ post_errors \subseteq files
        /\ files \cap items_to_delete(doc) \subseteq post_errors
        /\ \A i \in 1..Len(rename_mappings(doc)) :
              \/ rename_mappings(doc)[i][1] \in post_errors
              \/ rename_mappings(doc)[i][1] \notin files
              \/ rename_mappings(doc)[i][2] \in files
        /\ stages[POST_PROCESSING] = COMPLETED
        /\ overall_status = COMPLETED

\* a deletion and a rename failed, the other renames were made
C33_Witness ==
    /\ pc = "finally"
    /\ post_errors = {FirstPagesMd(doc), MetadataFile(doc)}
    /\ FirstPagesPdf(doc) \notin files
    /\ <<"full_", doc, ".md">> \in files
    /\ overall_status = COMPLETED

\* the progress events name stages in pipeline order
ProgressInStageOrder ==
    \A i \in 1..Len(progressLog) : \A j \in i..Len(progressLog) :
        progressLog[i].current_stage <= progressLog[j].current_stage

\* the error callback was called at most once, for a stage that is not
\* before the stage of any progress event
ErrorAfterProgress ==
    /\ Len(errorLog) <= 1
    /\ \A i \in 1..Len(errorLog) : \A j \in 1..Len(progressLog) :
          progressLog[j].current_stage <= errorLog[i]

\* C34: within one run the stages named by the successive progress and
\* error callback invocations never go backwards in pipeline order, and
\* after an error callback no further callback is invoked in that run.
C34_CallbacksFollowStageOrder ==
    /\ [](ProgressInStageOrder /\ ErrorAfterProgress)
    /\ [][(errorLog # <<>> /\ run' = run) =>
            (progressLog' = progressLog /\ errorLog' = errorLog)]_vars

\* both callbacks registered; stages 1 and 2 reported progress, stage 3
\* failed and was reported to the error callback
C34_Witness ==
    /\ Returned
    /\ progress_callback
    /\ error_callback
    /\ errorLog = <<STRUCTURE_PARSING>>
    /\ \E j \in 1..Len(progressLog) : progressLog[j].current_stage = 1
    /\ \E j \in 1..Len(progressLog) : progressLog[j].current_stage = 2
    /\ progressLog[Len(progressLog)].current_stage = 3

\* C35: every retry of a section sub-task issues the section's request
\* again: a sub-task that has slept after a failure goes on with a request.
C35_SectionRetryIssuesRequest ==
    [][\A i \in 1..Len(section_tasks) :
          (/\ report_pc = "fanout"
           /\ section_tasks[i].state = "sleep"
           /\ section_tasks'[i] # section_tasks[i]) =>
                section_tasks'[i].state = "request"]_vars

\* C37: in every result returned Completed, metadata_path and
\* structure_path name files that are in the output directory.
C37_ArtifactPathsExist ==
    (Returned /\ overall_status = COMPLETED) =>
        /\ metadata_path \in files
        /\ structure_path \in files

Running == pc \notin {"idle", "returned", "raised"}

\* C39: every invocation of process_paper eventually returns, with
\* overall_status Completed or Failed and no StageResult InProgress, and
\* the stage 1 loop makes at most max_retries iterations on the way.
C39_Termination ==
    /\ [](retry_count <= max_retries /\ invoked[1] <= max_retries)
    /\ \A r \in 1..MaxRuns :
          (run = r /\ Running) ~>
              (/\ run = r
               /\ Returned
               /\ overall_status \in {COMPLETED, FAILED}
               /\ \A k \in ProcessingStage : stages[k] # IN_PROGRESS)

\* C36: two runs on one output directory are not isolated. A run fails in
\* stage 4 for want of paper_structure.json, after stage 3 resolved
\* Completed and without a collaborator failing, only when the other
\* run's PostProcessing has acted in between; C36_Witness is an
\* interleaving in which this happens.
C36_RunsNotIsolated ==
    (/\ pipeline_error = StageError(REPORT_GENERATION)
     /\ invoked[REPORT_GENERATION] = 0) =>
        /\ stages[STRUCTURE_PARSING] = COMPLETED
        /\ StructureFile \notin files
        /\ other_pc \in {"finally", "returned"}

\* both runs found the directory empty and every collaborator succeeded;
\* the other run renamed paper_structure.json before this run's stage 4
\* looked for it, and this run returned Failed
C36_Witness ==
    /\ Returned
    /\ run = 1
    /\ StartedEmpty
    /\ overall_status = FAILED
    /\ pipeline_error = StageError(REPORT_GENERATION)
    /\ invoked = <<1, 0, 1, 0, 0>>
    /\ retry_count = 0
    /\ \A k \in 1..3 : stages[k] = COMPLETED /\ ~errMsg[k]
    /\ other_pc = "returned"
    /\ savedResult.overall_status = FAILED

====
